---- MODULE Spec2Model ----
(***************************************************************************)
(* Model of mkinit/formatting.py: the insertion-point locator              *)
(* (_find_insert_points), the indenter (_indent) and the merge             *)
(* (_insert_autogen_text).  Text is modelled as TLA+ strings; Len, SubSeq  *)
(* and \o are the only string primitives used.  A file is a sequence of    *)
(* lines as file.readlines() returns them.                                 *)
(***************************************************************************)
EXTENDS Integers, Sequences, FiniteSets, TLC

(***************************************************************************)
(* Bounds of the model.                                                    *)
(***************************************************************************)
MaxLines == 3

None == -1

(***************************************************************************)
(* Python string primitives.                                               *)
(***************************************************************************)
Whitespace == {" ", "\n", "\t", "\r"}

Char(s, i) == SubSeq(s, i, i)

MinOf(S) == CHOOSE m \in S : \A k \in S : m <= k

MaxOf(S) == CHOOSE m \in S : \A k \in S : m >= k

\* str.startswith(prefix)
startswith(s, p) == Len(s) >= Len(p) /\ SubSeq(s, 1, Len(p)) = p

RECURSIVE lstrip(_)
\* str.lstrip()
lstrip(s) ==
    IF s = "" THEN ""
    ELSE IF Char(s, 1) \in Whitespace THEN lstrip(SubSeq(s, 2, Len(s))) ELSE s

RECURSIVE rstrip(_)
\* str.rstrip()
rstrip(s) ==
    IF s = "" THEN ""
    ELSE IF Char(s, Len(s)) \in Whitespace THEN rstrip(SubSeq(s, 1, Len(s) - 1)) ELSE s

\* str.strip()
strip(s) == lstrip(rstrip(s))

RECURSIVE rstrip_nl(_)
\* str.rstrip('\n')
rstrip_nl(s) ==
    IF s = "" THEN ""
    ELSE IF Char(s, Len(s)) = "\n" THEN rstrip_nl(SubSeq(s, 1, Len(s) - 1)) ELSE s

RECURSIVE FindFrom(_, _, _)
FindFrom(s, c, i) ==
    IF i > Len(s) THEN -1
    ELSE IF Char(s, i) = c THEN i - 1 ELSE FindFrom(s, c, i + 1)

\* str.find(c) for a one-character c: 0-based index of the first c, or -1
find(s, c) == FindFrom(s, c, 1)

\* the slice s[:k], k possibly negative
slice_to(s, k) ==
    IF k >= 0 THEN SubSeq(s, 1, IF k < Len(s) THEN k ELSE Len(s))
    ELSE SubSeq(s, 1, IF Len(s) + k > 0 THEN Len(s) + k ELSE 0)

RECURSIVE join(_)
\* ''.join(parts)
join(parts) == IF parts = <<>> THEN "" ELSE Head(parts) \o join(Tail(parts))

RECURSIVE join_nl(_)
\* '\n'.join(parts)
join_nl(parts) ==
    IF parts = <<>> THEN ""
    ELSE IF Len(parts) = 1 THEN Head(parts)
    ELSE Head(parts) \o "\n" \o join_nl(Tail(parts))

RECURSIVE split_nl(_)
\* text.split('\n')
split_nl(text) ==
    LET k == find(text, "\n")
    IN  IF k = -1 THEN <<text>>
        ELSE <<SubSeq(text, 1, k)>> \o split_nl(SubSeq(text, k + 2, Len(text)))

RECURSIVE replace_nl(_, _)
\* text.replace('\n', new)
replace_nl(text, new) ==
    LET k == find(text, "\n")
    IN  IF k = -1 THEN text
        ELSE SubSeq(text, 1, k) \o new \o replace_nl(SubSeq(text, k + 2, Len(text)), new)

RECURSIVE readlines(_)
\* file.readlines(): every line keeps its newline, the last may lack one
readlines(text) ==
    LET k == find(text, "\n")
    IN  IF text = "" THEN <<>>
        ELSE IF k = -1 THEN <<text>>
        ELSE <<SubSeq(text, 1, k + 1)>> \o readlines(SubSeq(text, k + 2, Len(text)))

(***************************************************************************)
(* Markers and implicit patterns of _find_insert_points.                   *)
(***************************************************************************)
OpenTag == "# <AUTOGEN_INIT>"

CloseTag == "# </AUTOGEN_INIT>"

implicit_patterns ==
    { "from __future__", "__version__", "__submodules__",
      "__external__", "__private__", "__protected__",
      "#", "\"\"\"", "'''" }

\* line.strip().startswith(implicit_patterns)
IsImplicit(line) == LET stripped == strip(line) IN \E p \in implicit_patterns : startswith(stripped, p)

\* line.strip().startswith('# <AUTOGEN_INIT>')
IsOpen(line) == startswith(strip(line), OpenTag)

\* line.strip().startswith('# </AUTOGEN_INIT>')
IsClose(line) == startswith(strip(line), CloseTag)

(***************************************************************************)
(* The statement-boundary scanner (static._locate_ps1_linenos).  It lives  *)
(* in mkinit/static_analysis.py, outside formatting.py, and is modelled    *)
(* after section 4.1 of the design: each source line carries the '>>> '    *)
(* prompt; the scanner strips it, tracks the bracket depth of the code     *)
(* before a comment, and reports the 0-based indices of the lines on which *)
(* a top-level statement begins (line 0 always; later, a non-blank line at *)
(* column 0 outside every bracket).  Blank, indented and bracketed lines   *)
(* continue the statement before them.                                     *)
(***************************************************************************)
PS1 == ">>> "

source_lines(ls) == [i \in 1..Len(ls) |-> PS1 \o rstrip_nl(ls[i])]

CodePart(body) == IF find(body, "#") = -1 THEN body ELSE slice_to(body, find(body, "#"))

Opens(body) ==
    LET code == CodePart(body)
    IN  Cardinality({i \in 1..Len(code) : Char(code, i) \in {"(", "[", "{"}})

Closes(body) ==
    LET code == CodePart(body)
    IN  Cardinality({i \in 1..Len(code) : Char(code, i) \in {")", "]", "}"}})

RECURSIVE DepthBefore(_, _)
\* bracket depth in force at the start of line i (1-based)
DepthBefore(src, i) ==
    IF i = 1 THEN 0
    ELSE LET body == SubSeq(src[i - 1], Len(PS1) + 1, Len(src[i - 1]))
             d    == DepthBefore(src, i - 1) + Opens(body) - Closes(body)
         IN  IF d < 0 THEN 0 ELSE d

StartsStatement(src, i) ==
    LET body == SubSeq(src[i], Len(PS1) + 1, Len(src[i]))
    IN  \/ i = 1
        \/ /\ DepthBefore(src, i) = 0
           /\ body # ""
           /\ Char(body, 1) \notin Whitespace

RECURSIVE SortedSeq(_)
SortedSeq(S) == IF S = {} THEN <<>> ELSE <<MinOf(S)>> \o SortedSeq(S \ {MinOf(S)})

_locate_ps1_linenos(src) == SortedSeq({i - 1 : i \in {k \in 1..Len(src) : StartsStatement(src, k)}})

(***************************************************************************)
(* _indent(text, indent)                                                   *)
(***************************************************************************)
\* _indent without the right-trim of line 200
_indent_untrimmed(text, indent) == indent \o replace_nl(text, "\n" \o indent)

_indent(text, indent) ==
    LET new_text_ == indent \o replace_nl(text, "\n" \o indent)
        parts     == split_nl(new_text_)
    IN  join_nl([i \in 1..Len(parts) |-> rstrip(parts[i])])

(***************************************************************************)
(* Inputs: the lines of an existing __init__.py and the generated text.    *)
(***************************************************************************)
LinePool ==
    { "#c", "x = 1", "x = (", "__version__ = (", "  1)", "  # c", "",
      OpenTag, "    " \o OpenTag, CloseTag, "    " \o CloseTag }

\* generated text as _initstr renders it: statements at column 0, parts
\* separated by one empty line, no trailing whitespace
InitstrPool == { "import a\nimport b", "import a\n\nimport b" }

RECURSIVE SeqsUpTo(_, _)
SeqsUpTo(S, n) ==
    IF n = 0 THEN {<<>>}
    ELSE LET shorter == SeqsUpTo(S, n - 1)
         IN  shorter \cup {Append(q, x) : q \in {r \in shorter : Len(r) = n - 1}, x \in S}

\* the file parses: no bracket closes below depth 0 and none is left open
Balanced(bodies) ==
    LET src == source_lines(bodies)
        body(i) == SubSeq(src[i], Len(PS1) + 1, Len(src[i]))
    IN  /\ \A i \in 1..Len(src) : DepthBefore(src, i) + Opens(body(i)) >= Closes(body(i))
        /\ Len(src) > 0 =>
               DepthBefore(src, Len(src)) + Opens(body(Len(src))) = Closes(body(Len(src)))

\* the lines readlines() returns for the bodies: each ends in a newline,
\* except the last one when the file does not end with one
AsFile(bodies, final_nl) ==
    [i \in 1..Len(bodies) |->
        IF i < Len(bodies) \/ final_nl THEN bodies[i] \o "\n" ELSE bodies[i]]

Files ==
    {AsFile(b, nl) : b \in {q \in SeqsUpTo(LinePool, MaxLines) : Balanced(q)},
                     nl \in BOOLEAN}

VARIABLES lines, initstr, ps1_lines, lineno, startline, endline, explicit_flag,
          init_indent, skipto, evaluated, pc, new_text, run, first_text

vars == <<lines, initstr, ps1_lines, lineno, startline, endline, explicit_flag,
          init_indent, skipto, evaluated, pc, new_text, run, first_text>>

\* ps1_lines of lines 133-139: the empty file raises IndexError in the scanner
Ps1Of(ls) == IF Len(ls) = 0 THEN <<>> ELSE _locate_ps1_linenos(source_lines(ls))

\* lines 124-144: the locals of _find_insert_points before its loop
Enter(ls) ==
    /\ ps1_lines = Ps1Of(ls)
    /\ lineno = 0
    /\ startline = 0
    /\ endline = Len(ls)
    /\ explicit_flag = FALSE
    /\ init_indent = ""
    /\ skipto = None
    /\ evaluated = {}
    /\ pc = "find"

Init ==
    /\ lines \in {f \in Files : \A i \in 1..Len(f) : f[i] # ""}
    /\ initstr \in InitstrPool
    /\ Enter(lines)
    /\ new_text = ""
    /\ run = 1
    /\ first_text = ""

(***************************************************************************)
(* The loop body of _find_insert_points on the locals                      *)
(* st = [startline, endline, explicit_flag, init_indent, skipto].          *)
(***************************************************************************)
Locals == [startline |-> startline, endline |-> endline, explicit_flag |-> explicit_flag,
           init_indent |-> init_indent, skipto |-> skipto]

InPs1(ps1, ln) == \E k \in 1..Len(ps1) : ps1[k] = ln

\* ps1_lines.index(lineno), 1-based
IndexIn(ps1, ln) == MinOf({k \in 1..Len(ps1) : ps1[k] = ln})

\* respect_implicit without the explicit_flag test of line 165
respect_implicit_ungated(st, ln, line, ps1) ==
    IF IsImplicit(line)
    THEN IF ~InPs1(ps1, ln)
         THEN [st EXCEPT !.startline = ln + 1]
         ELSE IF IndexIn(ps1, ln) + 1 <= Len(ps1)
              THEN [st EXCEPT !.skipto = ps1[IndexIn(ps1, ln) + 1],
                              !.startline = ps1[IndexIn(ps1, ln) + 1]]
              ELSE [st EXCEPT !.startline = st.endline]
    ELSE st

\* lines 165-181
respect_implicit(st, ln, line, ps1) ==
    IF ~st.explicit_flag /\ IsImplicit(line)
    THEN IF ~InPs1(ps1, ln)
         THEN [st EXCEPT !.startline = ln + 1]
         ELSE IF IndexIn(ps1, ln) + 1 <= Len(ps1)
              THEN [st EXCEPT !.skipto = ps1[IndexIn(ps1, ln) + 1],
                              !.startline = ps1[IndexIn(ps1, ln) + 1]]
              ELSE [st EXCEPT !.startline = st.endline]
    ELSE st

\* lines 182-186
found_start_tag(st, ln, line) ==
    IF IsOpen(line)
    THEN [st EXCEPT !.init_indent = slice_to(line, find(line, "#")),
                    !.explicit_flag = TRUE,
                    !.startline = ln + 1]
    ELSE st

\* found_end_tag with the closing marker inside the replaced range
found_end_tag_inclusive(st, ln, line) ==
    IF st.explicit_flag /\ IsClose(line)
    THEN [st EXCEPT !.endline = ln + 1]
    ELSE st

\* lines 187-189
found_end_tag(st, ln, line) ==
    IF st.explicit_flag /\ IsClose(line)
    THEN [st EXCEPT !.endline = ln]
    ELSE st

\* one evaluated iteration, skipto already cleared
loop_body(st, ln, line, ps1) ==
    found_end_tag(found_start_tag(respect_implicit(st, ln, line, ps1), ln, line), ln, line)

\* lines 159-161: the iteration is passed over
SkipLine ==
    /\ pc = "find"
    /\ lineno < Len(lines)
    /\ skipto # None
    /\ lineno # skipto
    /\ lineno' = lineno + 1
    /\ UNCHANGED <<lines, initstr, ps1_lines, startline, endline, explicit_flag,
                   init_indent, skipto, evaluated, pc, new_text, run, first_text>>

\* lines 162-189: the iteration is evaluated
EvalLine ==
    /\ pc = "find"
    /\ lineno < Len(lines)
    /\ skipto = None \/ lineno = skipto
    /\ LET st == loop_body([Locals EXCEPT !.skipto = None], lineno, lines[lineno + 1], ps1_lines)
       IN  /\ startline' = st.startline
           /\ endline' = st.endline
           /\ explicit_flag' = st.explicit_flag
           /\ init_indent' = st.init_indent
           /\ skipto' = st.skipto
    /\ evaluated' = evaluated \cup {lineno}
    /\ lineno' = lineno + 1
    /\ UNCHANGED <<lines, initstr, ps1_lines, pc, new_text, run, first_text>>

\* the assertion of line 193 compiled out
assert_off(s, e) == TRUE

\* line 193
assert_ok(s, e) == s <= e

\* lines 191-194: the loop is over; return or AssertionError
Return ==
    /\ pc = "find"
    /\ lineno = Len(lines)
    /\ pc' = IF assert_ok(startline, endline) THEN "found" ELSE "error"
    /\ UNCHANGED <<lines, initstr, ps1_lines, lineno, startline, endline, explicit_flag,
                   init_indent, skipto, evaluated, new_text, run, first_text>>

\* lines 66-70
render(ls, s, e, indent, text) ==
    LET initstr_  == _indent(text, indent) \o "\n"
        new_lines == SubSeq(ls, 1, s) \o <<initstr_>> \o SubSeq(ls, e + 1, Len(ls))
    IN  rstrip(join(new_lines)) \o "\n"

\* lines 65-71: _insert_autogen_text after the locator returned
Insert ==
    /\ pc = "found"
    /\ new_text' = render(lines, startline, endline, init_indent, initstr)
    /\ pc' = "done"
    /\ UNCHANGED <<lines, initstr, ps1_lines, lineno, startline, endline, explicit_flag,
                   init_indent, skipto, evaluated, run, first_text>>

\* lines 59-65: the tool is run again on the file that now holds new_text
Rerun ==
    /\ pc = "done"
    /\ run = 1
    /\ lines' = readlines(new_text)
    /\ ps1_lines' = Ps1Of(lines')
    /\ lineno' = 0
    /\ startline' = 0
    /\ endline' = Len(lines')
    /\ explicit_flag' = FALSE
    /\ init_indent' = ""
    /\ skipto' = None
    /\ evaluated' = {}
    /\ pc' = "find"
    /\ run' = 2
    /\ first_text' = new_text
    /\ UNCHANGED <<initstr, new_text>>

Next == SkipLine \/ EvalLine \/ Return \/ Insert \/ Rerun

Spec == Init /\ [][Next]_vars

(***************************************************************************)
(* Vocabulary of the properties.  Line indices are 0-based, as in the      *)
(* source.                                                                 *)
(***************************************************************************)
Line(k) == lines[k + 1]

OpenIdx == {k \in 0..(Len(lines) - 1) : IsOpen(Line(k))}

CloseIdx == {k \in 0..(Len(lines) - 1) : IsClose(Line(k))}

Boundaries == {ps1_lines[k] : k \in 1..Len(ps1_lines)}

Returned == pc \in {"found", "done"}

PassOver == lineno = Len(lines)

\* the boundary that follows line k, or len(lines) when there is none
NextBoundaryAfter(k) ==
    IF {b \in Boundaries : b > k} = {} THEN Len(lines) ELSE MinOf({b \in Boundaries : b > k})

\* evaluated lines that begin with an implicit pattern
Matched == {k \in evaluated : IsImplicit(Line(k))}

\* text ++ the lines from..to-1
TextOf(ls, from, to) == join(SubSeq(ls, from + 1, to))

TypeOK ==
    /\ pc \in {"find", "found", "error", "done"}
    /\ run \in {1, 2}
    /\ lineno \in 0..Len(lines)
    /\ evaluated \subseteq 0..(Len(lines) - 1)

(***************************************************************************)
(* C1.  Idempotence: merging the same generated text into the output of a  *)
(* first merge succeeds and yields the text of the first merge.            *)
(***************************************************************************)
C1_Idempotent ==
    run = 2 => /\ pc # "error"
               /\ pc = "done" => new_text = first_text

(***************************************************************************)
(* C3.  Markerless result: without an opening marker the locator returns,  *)
(* end = len(lines), indent = '', and start is 0 when no evaluated line    *)
(* begins with an implicit pattern and otherwise the first line after the  *)
(* last statement that begins with one.                                    *)
(***************************************************************************)
C3_MarkerlessResult ==
    (OpenIdx = {} /\ PassOver) =>
        /\ pc # "error"
        /\ Returned =>
              /\ endline = Len(lines)
              /\ init_indent = ""
              /\ startline = IF Matched = {} THEN 0 ELSE NextBoundaryAfter(MaxOf(Matched))
              /\ lines = <<>> => startline = 0 /\ endline = 0

(***************************************************************************)
(* C4.  Multi-line preamble skip: when the line at a boundary L, met       *)
(* outside explicit mode and not itself a marker, begins with an implicit  *)
(* pattern and its statement spans several lines, then right after L       *)
(* skip_to and start are the next boundary (start = end when L is the last *)
(* statement), no line strictly between L and the next boundary is         *)
(* evaluated, and the start returned is not strictly inside the statement. *)
(***************************************************************************)
C4_Preamble(L) ==
    /\ L \in Boundaries
    /\ IsImplicit(Line(L))
    /\ ~IsOpen(Line(L))
    /\ {o \in OpenIdx \cap evaluated : o < L} = {}
    /\ NextBoundaryAfter(L) > L + 1

C4_SetsSkip ==
    \A L \in 0..(Len(lines) - 1) :
        (C4_Preamble(L) /\ pc = "find" /\ lineno = L + 1) =>
            IF NextBoundaryAfter(L) \notin Boundaries
            THEN startline = endline
            ELSE skipto = NextBoundaryAfter(L) /\ startline = NextBoundaryAfter(L)

C4_NoneEvaluated ==
    \A L \in 0..(Len(lines) - 1) :
        (C4_Preamble(L) /\ lineno > L /\ NextBoundaryAfter(L) \in Boundaries) =>
            {k \in evaluated : L < k /\ k < NextBoundaryAfter(L)} = {}

C4_StartOutside ==
    \A L \in 0..(Len(lines) - 1) :
        (C4_Preamble(L) /\ lineno > L /\ Returned) =>
            ~(L < startline /\ startline < NextBoundaryAfter(L))

C4_MultiLineSkip == C4_SetsSkip /\ C4_NoneEvaluated /\ C4_StartOutside

(***************************************************************************)
(* C6.  Only the first marker pair is meaningful: at the end of the pass   *)
(* start and indent are those of the first opening marker evaluated, and   *)
(* end is the first closing marker evaluated after it (len(lines) when     *)
(* there is none).                                                         *)
(***************************************************************************)
C6_FirstPairOnly ==
    (PassOver /\ OpenIdx \cap evaluated # {}) =>
        LET o  == MinOf(OpenIdx \cap evaluated)
            cs == {c \in CloseIdx \cap evaluated : c > o}
        IN  /\ startline = o + 1
            /\ init_indent = slice_to(Line(o), find(Line(o), "#"))
            /\ endline = IF cs = {} THEN Len(lines) ELSE MinOf(cs)

(***************************************************************************)
(* C9.  The locator never truncates a multi-line construct: without an     *)
(* opening marker the start returned is a statement boundary or            *)
(* len(lines).                                                             *)
(***************************************************************************)
C9_NeverTruncates ==
    (Returned /\ OpenIdx = {}) => (startline \in Boundaries \/ startline = Len(lines))

(***************************************************************************)
(* C10.  The generated block never shares a line with preserved text:      *)
(* when start > 0 the character before the block in the new text is a      *)
(* newline.                                                                *)
(***************************************************************************)
C10_OwnLine ==
    (pc = "done" /\ startline > 0) =>
        Char(new_text, Len(TextOf(lines, 0, startline))) = "\n"

(***************************************************************************)
(* C2.  Marker round-trip.  A file with one opening marker at line i and   *)
(* one closing marker at a later line j.                                   *)
(***************************************************************************)
C2_Pair(i, j) == OpenIdx = {i} /\ CloseIdx = {j} /\ i < j

\* the indented generated body for the opening marker at line i
C2_Body(i) == _indent(initstr, slice_to(Line(i), find(Line(i), "#"))) \o "\n"

C2_BodyLen == Len(split_nl(initstr))

C2_SameLines(a, b) ==
    /\ Len(a) = Len(b)
    /\ \A k \in 1..Len(a) : rstrip_nl(a[k]) = rstrip_nl(b[k])

C5_RangeInvariant ==
    /\ Returned => 0 <= startline /\ startline <= endline /\ endline <= Len(lines)
    /\ (PassOver /\ startline > endline) => pc \in {"find", "error"}
    /\ pc = "error" => startline > endline /\ new_text = first_text

C5_Witness ==
    /\ pc = "error"
    /\ \E o1, o2 \in OpenIdx \cap evaluated, c \in CloseIdx \cap evaluated : o1 < c /\ c < o2

C8_Block ==
    LET parts == split_nl(initstr)
    IN  join_nl([k \in 1..Len(parts) |->
                    IF strip(parts[k]) = "" THEN "" ELSE init_indent \o parts[k]])

C8_Raw ==
    TextOf(lines, 0, startline) \o C8_Block \o "\n" \o TextOf(lines, endline, Len(lines))

C8_SpliceResult ==
    pc = "done" =>
        /\ LET raw == C8_Raw
               n   == Len(new_text) - 1
           IN  /\ 0 <= n /\ n <= Len(raw)
               /\ new_text = SubSeq(raw, 1, n) \o "\n"
               /\ n = 0 \/ Char(raw, n) \notin Whitespace
               /\ \A k \in (n + 1)..Len(raw) : Char(raw, k) \in Whitespace
        /\ (run = 1 /\ lines = <<>> /\ initstr = "import a\nimport b")
               => new_text = "import a\nimport b\n"

C8_Witness ==
    /\ pc = "done"
    /\ run = 1
    /\ init_indent = "    "
    /\ initstr = "import a\n\nimport b"
    /\ startline > 0
    /\ endline < Len(lines)
====
